---- MODULE Spec2Model ----
(***************************************************************************)
(* mockturtle::aiger_reader<Ntk> and mockturtle::NameMap<Ntk>              *)
(* (lib/mockturtle/include/mockturtle/io/aiger_reader.hpp).                *)
(*                                                                         *)
(* The reader is a lorina callback object.  The event source calls         *)
(* on_header first and then the other handlers in file order; the          *)
(* destructor turns the buffered outputs and latches into primary outputs  *)
(* and register inputs of the network.  The network Ntk is not part of     *)
(* this file: it is modelled as the capability contract of the             *)
(* specification (an AIG whose negation flips a complement bit).           *)
(***************************************************************************)
EXTENDS Integers, Sequences, FiniteSets, TLC

\* ------------------------------------------------------------------ bounds
\* Spec: every handler with every argument of a small range, short streams.
MaxInputs == 1
MaxLatches == 1
MaxLit == 3
MaxIndex == 2
MaxEvents == 2
\* SpecE2E: streams over a two-input circuit, longer, with few arguments.
MaxEventsE2E == 3
\* SpecNameMap: calls on a NameMap of its own.
MaxCalls == 3

Lits == 0..MaxLit
Indices == 0..MaxIndex
Names == {"x", "y"}
latch_init_value == {"ZERO", "ONE", "NONDETERMINISTIC"}

VARIABLES
  pc,                  \* "header", "events", "dtor", "done"; the process died:
                       \* "abort" (in a handler), "abort_dtor" (in the destructor)
  NDEBUG,              \* the build removes assert()
  has_set_name_v,      \* Ntk has set_name / has_name
  has_set_output_name_v, \* Ntk has set_output_name / has_output_name
  _ntk,                \* the network the reader is bound to
  _names,              \* the NameMap pointer is not null
  nm,                  \* the NameMap behind _names
  _num_inputs,
  outputs,             \* pending outputs  <<lit, name>>
  signals,             \* the signal table
  latches,             \* pending latches  <<lit, reset, name>>
  output_idx,          \* locals of the destructor
  latch_idx,
  trace                \* the events delivered so far (history)

vars == <<pc, NDEBUG, has_set_name_v, has_set_output_name_v, _ntk, _names, nm,
          _num_inputs, outputs, signals, latches, output_idx, latch_idx, trace>>

\* ------------------------------------------------------------ the network
\* A signal is a node index and a complement bit; node 0 is the constant.
Signal(n, c) == [index |-> n, complement |-> c]

\* What a read past the end of the signal table may yield.
Wild == Signal(-1, 0)
\* The read traps instead of yielding a value.
Trap == Signal(-2, 0)

get_constant(value) == Signal(0, IF value THEN 1 ELSE 0)

create_not(s) == [s EXCEPT !.complement = 1 - @]

\* Each create_* returns the pair <<network, signal>>.
create_pi(g) ==
  LET g2 == [g EXCEPT !.nodes = Append(@, [kind |-> "pi", fanin |-> <<>>])]
  IN  <<g2, Signal(Len(g2.nodes), 0)>>

create_ro(g) ==
  LET g2 == [g EXCEPT !.nodes = Append(@, [kind |-> "ro", fanin |-> <<>>])]
  IN  <<g2, Signal(Len(g2.nodes), 0)>>

create_and(g, a, b) ==
  LET g2 == [g EXCEPT !.nodes = Append(@, [kind |-> "and", fanin |-> <<a, b>>])]
  IN  <<g2, Signal(Len(g2.nodes), 0)>>

create_po(g, s) ==
  [g EXCEPT !.outputs = Append(@, [kind |-> "po", sig |-> s, reset |-> 0])]

create_ri(g, s, reset) ==
  [g EXCEPT !.outputs = Append(@, [kind |-> "ri", sig |-> s, reset |-> reset])]

\* names and output_names are finite maps (functions on the keys that are set).
EmptyMap == <<>>
MapHas(m, k) == k \in DOMAIN m
MapPut(m, k, v) == (k :> v) @@ m

EmptyNtk == [nodes |-> <<>>, outputs |-> <<>>, names |-> EmptyMap, output_names |-> EmptyMap]

has_name(g, s) == MapHas(g.names, s)
set_name(g, s, name) == [g EXCEPT !.names = MapPut(@, s, name)]
has_output_name(g, index) == MapHas(g.output_names, index)
set_output_name(g, index, name) == [g EXCEPT !.output_names = MapPut(@, index, name)]

\* ------------------------------------------------------------ the NameMap
EmptyNameMap == [_names |-> EmptyMap, _rev_names |-> EmptyMap]

\* Mutant: a later insert for a signal replaces its list.
insertReplacing(m, s, name) ==
  [_names |-> MapPut(m._names, s, <<name>>),
   _rev_names |->
     IF name \in DOMAIN m._rev_names
     THEN m._rev_names
     ELSE MapPut(m._rev_names, name, s)]

\* NameMap::insert: the forward list grows; unordered_map::insert keeps an
\* existing reverse entry.
insert(m, s, name) ==
  [_names |->
     IF s \notin DOMAIN m._names
     THEN MapPut(m._names, s, <<name>>)
     ELSE [m._names EXCEPT ![s] = Append(@, name)],
   _rev_names |->
     IF name \in DOMAIN m._rev_names
     THEN m._rev_names
     ELSE MapPut(m._rev_names, name, s)]

\* A lookup gives the map after it and what it returned or that it threw.
\* Non-const operator[]: unordered_map::operator[] makes the missing entry.
NameMapIndex(m, s) ==
  LET m2 == IF s \in DOMAIN m._names THEN m
            ELSE [m EXCEPT !._names = MapPut(@, s, <<>>)]
  IN  [map |-> m2, threw |-> FALSE, value |-> m2._names[s]]

\* Const operator[] and get_name: unordered_map::at throws std::out_of_range.
NameMapAt(m, s) ==
  IF s \in DOMAIN m._names
  THEN [map |-> m, threw |-> FALSE, value |-> m._names[s]]
  ELSE [map |-> m, threw |-> TRUE, value |-> <<>>]

get_name(m, s) == NameMapAt(m, s)

NameMap_has_name(m, s, name) ==
  IF s \notin DOMAIN m._names THEN FALSE
  ELSE \E i \in 1..Len(m._names[s]) : m._names[s][i] = name

get_name_to_signal_mapping(m) == m._rev_names

\* ------------------------------------------------------------- the reader
\* Mutant: the table is read one entry too low.
ReadSignalOffByOne(i) ==
  IF i < Len(signals) THEN {signals[IF i = 0 THEN 1 ELSE i]} ELSE {Wild, Trap}

\* signals[i] of the std::vector: past the end the read is undefined.
ReadSignal(i) == IF i < Len(signals) THEN {signals[i + 1]} ELSE {Wild, Trap}

\* Mutant: the polarity bit is ignored.
LiteralSignalNeverNegates(sig, lit) == sig

\* "if ( lit & 1 ) signal = _ntk.create_not( signal )"
LiteralSignal(sig, lit) == IF lit % 2 = 1 THEN create_not(sig) ELSE sig

\* Mutant: inputs are numbered from 1.
DefaultInputNameFromOne(i) == "pi" \o ToString(i + 1)

DefaultInputName(i) == "pi" \o ToString(i)
DefaultOutputName(idx) == "po" \o ToString(idx)
DefaultLatchName(idx) == "li" \o ToString(idx)

\* Mutant: ONE is not told from ZERO.
ResetCodeOneLost(reset) == IF reset = "NONDETERMINISTIC" THEN -1 ELSE 0

\* latch_init_value -> int8_t
ResetCode(reset) ==
  IF reset = "NONDETERMINISTIC" THEN -1 ELSE IF reset = "ONE" THEN 1 ELSE 0

\* assert( cond ) aborts unless the build defines NDEBUG.
AssertFails(cond) == ~cond /\ ~NDEBUG

Abort(e) ==
  /\ pc' = "abort"
  /\ trace' = Append(trace, e)
  /\ UNCHANGED <<NDEBUG, has_set_name_v, has_set_output_name_v, _ntk, _names, nm,
                 _num_inputs, outputs, signals, latches, output_idx, latch_idx>>

\* Mutant: the input loop runs once too often.
RECURSIVE HeaderInputsOffByOne(_, _, _, _)
HeaderInputsOffByOne(g, sigs, i, num_inputs) ==
  IF i > num_inputs THEN <<g, sigs>>
  ELSE LET r  == create_pi(g)
           g2 == IF has_set_name_v /\ ~has_name(r[1], r[2])
                 THEN set_name(r[1], r[2], DefaultInputName(i))
                 ELSE r[1]
       IN  HeaderInputsOffByOne(g2, Append(sigs, r[2]), i + 1, num_inputs)

RECURSIVE HeaderInputs(_, _, _, _)
HeaderInputs(g, sigs, i, num_inputs) ==
  IF i >= num_inputs THEN <<g, sigs>>
  ELSE LET r  == create_pi(g)
           g2 == IF has_set_name_v /\ ~has_name(r[1], r[2])
                 THEN set_name(r[1], r[2], DefaultInputName(i))
                 ELSE r[1]
       IN  HeaderInputs(g2, Append(sigs, r[2]), i + 1, num_inputs)

RECURSIVE HeaderLatches(_, _, _, _)
HeaderLatches(g, sigs, i, num_latches) ==
  IF i >= num_latches THEN <<g, sigs>>
  ELSE LET r == create_ro(g)
       IN  HeaderLatches(r[1], Append(sigs, r[2]), i + 1, num_latches)

on_header(num_inputs, num_latches) ==
  /\ pc = "header"
  /\ LET s0 == Append(signals, get_constant(FALSE))
         a  == HeaderInputs(_ntk, s0, 0, num_inputs)
         b  == HeaderLatches(a[1], a[2], 0, num_latches)
     IN  /\ _num_inputs' = num_inputs
         /\ _ntk' = b[1]
         /\ signals' = b[2]
  /\ pc' = "events"
  /\ trace' = Append(trace, [op |-> "on_header", num_inputs |-> num_inputs,
                             num_latches |-> num_latches])
  /\ UNCHANGED <<NDEBUG, has_set_name_v, has_set_output_name_v, _names, nm,
                 outputs, latches, output_idx, latch_idx>>

on_input_name(index, name) ==
  /\ pc = "events"
  /\ LET e == [op |-> "on_input_name", index |-> index, name |-> name]
     IN  IF has_set_name_v
         THEN \E sig \in ReadSignal(1 + index) :
                IF sig = Trap THEN Abort(e)
                ELSE /\ _ntk' = set_name(_ntk, sig, name)
                     /\ trace' = Append(trace, e)
                     /\ UNCHANGED <<pc, NDEBUG, has_set_name_v, has_set_output_name_v,
                                    _names, nm, _num_inputs, outputs, signals, latches,
                                    output_idx, latch_idx>>
         ELSE /\ trace' = Append(trace, e)
              /\ UNCHANGED <<pc, NDEBUG, has_set_name_v, has_set_output_name_v, _ntk,
                             _names, nm, _num_inputs, outputs, signals, latches,
                             output_idx, latch_idx>>

on_output_name(index, name) ==
  /\ pc = "events"
  /\ _ntk' = IF has_set_output_name_v THEN set_output_name(_ntk, index, name) ELSE _ntk
  /\ trace' = Append(trace, [op |-> "on_output_name", index |-> index, name |-> name])
  /\ UNCHANGED <<pc, NDEBUG, has_set_name_v, has_set_output_name_v, _names, nm,
                 _num_inputs, outputs, signals, latches, output_idx, latch_idx>>

\* Mutant: the latch position is not offset by the number of inputs.
on_latch_name_no_offset(index, name) ==
  /\ pc = "events"
  /\ LET e == [op |-> "on_latch_name", index |-> index, name |-> name]
     IN  IF has_set_name_v
         THEN \E sig \in ReadSignal(1 + index) :
                IF sig = Trap THEN Abort(e)
                ELSE /\ _ntk' = set_name(_ntk, sig, name)
                     /\ trace' = Append(trace, e)
                     /\ UNCHANGED <<pc, NDEBUG, has_set_name_v, has_set_output_name_v,
                                    _names, nm, _num_inputs, outputs, signals, latches,
                                    output_idx, latch_idx>>
         ELSE /\ trace' = Append(trace, e)
              /\ UNCHANGED <<pc, NDEBUG, has_set_name_v, has_set_output_name_v, _ntk,
                             _names, nm, _num_inputs, outputs, signals, latches,
                             output_idx, latch_idx>>

on_latch_name(index, name) ==
  /\ pc = "events"
  /\ LET e == [op |-> "on_latch_name", index |-> index, name |-> name]
     IN  IF has_set_name_v
         THEN \E sig \in ReadSignal(1 + _num_inputs + index) :
                IF sig = Trap THEN Abort(e)
                ELSE /\ _ntk' = set_name(_ntk, sig, name)
                     /\ trace' = Append(trace, e)
                     /\ UNCHANGED <<pc, NDEBUG, has_set_name_v, has_set_output_name_v,
                                    _names, nm, _num_inputs, outputs, signals, latches,
                                    output_idx, latch_idx>>
         ELSE /\ trace' = Append(trace, e)
              /\ UNCHANGED <<pc, NDEBUG, has_set_name_v, has_set_output_name_v, _ntk,
                             _names, nm, _num_inputs, outputs, signals, latches,
                             output_idx, latch_idx>>

\* Mutant: the new gate's signal is put at the front of the table.
on_and_front(index, left_lit, right_lit) ==
  /\ pc = "events"
  /\ LET e == [op |-> "on_and", index |-> index, left_lit |-> left_lit,
               right_lit |-> right_lit, size |-> Len(signals)]
     IN  IF AssertFails(Len(signals) = index) THEN Abort(e)
         ELSE \E l \in ReadSignal(left_lit \div 2), r \in ReadSignal(right_lit \div 2) :
                IF l = Trap \/ r = Trap THEN Abort(e)
                ELSE LET left  == LiteralSignal(l, left_lit)
                         right == LiteralSignal(r, right_lit)
                         c     == create_and(_ntk, left, right)
                     IN  /\ _ntk' = c[1]
                         /\ signals' = <<c[2]>> \o signals
                         /\ trace' = Append(trace, e)
                         /\ UNCHANGED <<pc, NDEBUG, has_set_name_v, has_set_output_name_v,
                                        _names, nm, _num_inputs, outputs, latches,
                                        output_idx, latch_idx>>

on_and(index, left_lit, right_lit) ==
  /\ pc = "events"
  /\ LET e == [op |-> "on_and", index |-> index, left_lit |-> left_lit,
               right_lit |-> right_lit, size |-> Len(signals)]
     IN  IF AssertFails(Len(signals) = index) THEN Abort(e)
         ELSE \E l \in ReadSignal(left_lit \div 2), r \in ReadSignal(right_lit \div 2) :
                IF l = Trap \/ r = Trap THEN Abort(e)
                ELSE LET left  == LiteralSignal(l, left_lit)
                         right == LiteralSignal(r, right_lit)
                         c     == create_and(_ntk, left, right)
                     IN  /\ _ntk' = c[1]
                         /\ signals' = Append(signals, c[2])
                         /\ trace' = Append(trace, e)
                         /\ UNCHANGED <<pc, NDEBUG, has_set_name_v, has_set_output_name_v,
                                        _names, nm, _num_inputs, outputs, latches,
                                        output_idx, latch_idx>>

on_latch(index, next, reset) ==
  /\ pc = "events"
  /\ latches' = Append(latches, <<next, ResetCode(reset), "">>)
  /\ trace' = Append(trace, [op |-> "on_latch", index |-> index, next |-> next,
                             reset |-> reset])
  /\ UNCHANGED <<pc, NDEBUG, has_set_name_v, has_set_output_name_v, _ntk, _names, nm,
                 _num_inputs, outputs, signals, output_idx, latch_idx>>

\* Mutant: the output is created when its event arrives.
on_output_eager(index, lit) ==
  /\ pc = "events"
  /\ outputs' = Append(outputs, <<lit, "">>)
  /\ _ntk' = create_po(_ntk, Signal(lit \div 2, lit % 2))
  /\ trace' = Append(trace, [op |-> "on_output", index |-> index, lit |-> lit,
                             size |-> Len(outputs)])
  /\ UNCHANGED <<pc, NDEBUG, has_set_name_v, has_set_output_name_v, _names, nm,
                 _num_inputs, signals, latches, output_idx, latch_idx>>

on_output(index, lit) ==
  /\ pc = "events"
  /\ LET e == [op |-> "on_output", index |-> index, lit |-> lit, size |-> Len(outputs)]
     IN  IF AssertFails(index = Len(outputs)) THEN Abort(e)
         ELSE /\ outputs' = Append(outputs, <<lit, "">>)
              /\ trace' = Append(trace, e)
              /\ UNCHANGED <<pc, NDEBUG, has_set_name_v, has_set_output_name_v, _ntk,
                             _names, nm, _num_inputs, signals, latches, output_idx,
                             latch_idx>>

\* ---------------------------------------------------------- the destructor
\* Mutant: the destructor's body runs again on a finalized reader.
DestroyAgain ==
  /\ pc \in {"header", "events", "failed", "done"}
  /\ pc' = "dtor"
  /\ output_idx' = 0
  /\ latch_idx' = 1
  /\ UNCHANGED <<NDEBUG, has_set_name_v, has_set_output_name_v, _ntk, _names, nm,
                 _num_inputs, outputs, signals, latches, trace>>

\* ~aiger_reader: the reader is destroyed when read_aiger returns, whether or
\* not the whole stream was delivered ("failed": the parser gave up).
Destroy ==
  /\ pc \in {"header", "events", "failed"}
  /\ pc' = "dtor"
  /\ output_idx' = 0
  /\ latch_idx' = 1
  /\ UNCHANGED <<NDEBUG, has_set_name_v, has_set_output_name_v, _ntk, _names, nm,
                 _num_inputs, outputs, signals, latches, trace>>

\* Mutant: the latch loop runs before the output loop.
DtorPhaseLatchesFirst ==
  IF latch_idx <= Len(latches) THEN "latches"
  ELSE IF output_idx < Len(outputs) + Len(latches) THEN "outputs"
  ELSE "end"

\* Which statement of the destructor runs next: the first loop runs over
\* outputs, then the second over latches.
DtorPhase ==
  IF output_idx < Len(outputs) THEN "outputs"
  ELSE IF latch_idx <= Len(latches) THEN "latches"
  ELSE "end"

\* Mutant: the default name is set whether or not the position has a name.
NameOutputAlways(g, idx) ==
  IF has_set_output_name_v
  THEN set_output_name(g, idx, DefaultOutputName(idx))
  ELSE g

\* "if constexpr ( has_set_output_name_v<Ntk> ) if ( !has_output_name( output_idx ) )"
NameOutput(g, idx) ==
  IF has_set_output_name_v /\ ~has_output_name(g, idx)
  THEN set_output_name(g, idx, DefaultOutputName(idx))
  ELSE g

NameLatch(g, idx, lidx) ==
  IF has_set_output_name_v /\ ~has_output_name(g, idx)
  THEN set_output_name(g, idx, DefaultLatchName(lidx))
  ELSE g

DtorAbort ==
  /\ pc' = "abort_dtor"
  /\ UNCHANGED <<NDEBUG, has_set_name_v, has_set_output_name_v, _ntk, _names, nm,
                 _num_inputs, outputs, signals, latches, output_idx, latch_idx, trace>>

DtorOutput ==
  /\ pc = "dtor"
  /\ DtorPhase = "outputs"
  /\ LET out == outputs[output_idx + 1]
         lit == out[1]
     IN  \E s \in ReadSignal(lit \div 2) :
           IF s = Trap THEN DtorAbort
           ELSE LET signal == LiteralSignal(s, lit)
                    g1 == create_po(_ntk, signal)
                    g2 == NameOutput(g1, output_idx)
                IN  /\ nm' = IF _names THEN insert(nm, signal, out[2]) ELSE nm
                    /\ _ntk' = g2
                    /\ output_idx' = output_idx + 1
                    /\ UNCHANGED <<pc, NDEBUG, has_set_name_v, has_set_output_name_v,
                                   _names, _num_inputs, outputs, signals, latches,
                                   latch_idx, trace>>

DtorLatch ==
  /\ pc = "dtor"
  /\ DtorPhase = "latches"
  /\ LET latch == latches[latch_idx]
         lit   == latch[1]
         reset == latch[2]
     IN  \E s \in ReadSignal(lit \div 2) :
           IF s = Trap THEN DtorAbort
           ELSE LET signal == LiteralSignal(s, lit)
                    g1 == create_ri(_ntk, signal, reset)
                    g2 == NameLatch(g1, output_idx, latch_idx)
                IN  /\ nm' = IF _names THEN insert(nm, signal, latch[3] \o "_next") ELSE nm
                    /\ _ntk' = g2
                    /\ latch_idx' = latch_idx + 1
                    /\ output_idx' = output_idx + 1
                    /\ UNCHANGED <<pc, NDEBUG, has_set_name_v, has_set_output_name_v,
                                   _names, _num_inputs, outputs, signals, latches, trace>>

DtorEnd ==
  /\ pc = "dtor"
  /\ DtorPhase = "end"
  /\ pc' = "done"
  /\ UNCHANGED <<NDEBUG, has_set_name_v, has_set_output_name_v, _ntk, _names, nm,
                 _num_inputs, outputs, signals, latches, output_idx, latch_idx, trace>>

\* ------------------------------------------------------- the specification
\* After construction: a fresh network, an empty NameMap (when one is
\* attached) and empty buffers.  Ntk is a network with names (set_name and
\* set_output_name exist); the build may or may not define NDEBUG.
Init ==
  /\ pc = "header"
  /\ NDEBUG \in BOOLEAN
  /\ has_set_name_v = TRUE
  /\ has_set_output_name_v = TRUE
  /\ _ntk = EmptyNtk
  /\ _names \in BOOLEAN
  /\ nm = EmptyNameMap
  /\ _num_inputs = 0
  /\ outputs = <<>>
  /\ signals = <<>>
  /\ latches = <<>>
  /\ output_idx = 0
  /\ latch_idx = 0
  /\ trace = <<>>

\* The event source delivers the header first and then any events; a
\* stream holds at most MaxEvents events after the header.
More(n) == Len(trace) < 1 + n

Next ==
  \/ \E num_inputs \in 0..MaxInputs, num_latches \in 0..MaxLatches :
       on_header(num_inputs, num_latches)
  \/ \E index \in Indices, name \in Names :
       More(MaxEvents) /\ on_input_name(index, name)
  \/ \E index \in Indices, name \in Names :
       More(MaxEvents) /\ on_output_name(index, name)
  \/ \E index \in Indices, name \in Names :
       More(MaxEvents) /\ on_latch_name(index, name)
  \/ \E index \in Indices, left_lit \in Lits, right_lit \in Lits :
       More(MaxEvents) /\ on_and(index, left_lit, right_lit)
  \/ \E index \in Indices, next \in Lits, reset \in latch_init_value :
       More(MaxEvents) /\ on_latch(index, next, reset)
  \/ \E index \in Indices, lit \in Lits :
       More(MaxEvents) /\ on_output(index, lit)
  \/ Destroy
  \/ DtorOutput
  \/ DtorLatch
  \/ DtorEnd

Spec == Init /\ [][Next]_vars

\* Streams over a circuit with two inputs: the end-to-end scenarios.
NextE2E ==
  \/ \E num_latches \in {0, 1} : on_header(2, num_latches)
  \/ \E index \in {0, 1} : More(MaxEventsE2E) /\ on_input_name(index, "x")
  \/ \E index \in {0, 1, 2}, name \in Names :
       More(MaxEventsE2E) /\ on_output_name(index, name)
  \/ More(MaxEventsE2E) /\ on_latch_name(0, "x")
  \/ \E left_lit \in {2, 3}, right_lit \in {4, 5} :
       More(MaxEventsE2E) /\ on_and(3, left_lit, right_lit)
  \/ \E next \in {2, 3}, reset \in latch_init_value :
       More(MaxEventsE2E) /\ on_latch(0, next, reset)
  \/ \E index \in {0, 1}, lit \in {6, 7} :
       More(MaxEventsE2E) /\ on_output(index, lit)
  \/ Destroy
  \/ DtorOutput
  \/ DtorLatch
  \/ DtorEnd

SpecE2E == Init /\ [][NextE2E]_vars

\* ------------------------------------------- the lifetime of a reader
\* aiger_reader<Ntk> is instantiated for a network type, the parser
\* delivers events and may give up part-way, and the reader is destroyed.
\* on_header calls _ntk.create_ro() and the destructor _ntk.create_ri()
\* outside any "if constexpr": for an Ntk without them the instantiation
\* is ill-formed and there is no reader.
Instantiate(has_create_ro, has_create_ri) ==
  /\ pc = "instantiate"
  /\ pc' = IF has_create_ro /\ has_create_ri THEN "header" ELSE "ill_formed"
  /\ trace' = Append(trace, [op |-> "instantiate",
                              has_create_ro |-> has_create_ro,
                              has_create_ri |-> has_create_ri])
  /\ UNCHANGED <<NDEBUG, has_set_name_v, has_set_output_name_v, _ntk, _names,
                 nm, _num_inputs, outputs, signals, latches, output_idx,
                 latch_idx>>

\* The parser stops with an error before the end of the file; no handler
\* is called after that.
ParseError ==
  /\ pc \in {"header", "events"}
  /\ pc' = "failed"
  /\ trace' = Append(trace, [op |-> "parse_error"])
  /\ UNCHANGED <<NDEBUG, has_set_name_v, has_set_output_name_v, _ntk, _names,
                 nm, _num_inputs, outputs, signals, latches, output_idx,
                 latch_idx>>

\* Any network type: with or without set_name, set_output_name.
InitLife ==
  /\ pc = "instantiate"
  /\ NDEBUG \in BOOLEAN
  /\ has_set_name_v \in BOOLEAN
  /\ has_set_output_name_v \in BOOLEAN
  /\ _ntk = EmptyNtk
  /\ _names \in BOOLEAN
  /\ nm = EmptyNameMap
  /\ _num_inputs = 0
  /\ outputs = <<>>
  /\ signals = <<>>
  /\ latches = <<>>
  /\ output_idx = 0
  /\ latch_idx = 0
  /\ trace = <<>>

\* trace holds the instantiation, the header and then the events.
MoreLife == Len(trace) < 2 + MaxEvents

NextLife ==
  \/ \E has_create_ro \in BOOLEAN, has_create_ri \in BOOLEAN :
       Instantiate(has_create_ro, has_create_ri)
  \/ \E num_latches \in 0..1 : on_header(1, num_latches)
  \/ \E name \in Names : MoreLife /\ on_input_name(0, name)
  \/ \E name \in Names : MoreLife /\ on_output_name(0, name)
  \/ \E name \in Names : MoreLife /\ on_latch_name(0, name)
  \/ \E reset \in latch_init_value : MoreLife /\ on_latch(0, 2, reset)
  \/ \E index \in {0, 1}, lit \in {2, 3} : MoreLife /\ on_output(index, lit)
  \/ ParseError
  \/ Destroy
  \/ DtorOutput
  \/ DtorLatch
  \/ DtorEnd

SpecLife == InitLife /\ [][NextLife]_vars

\* ------------------------------------------------- a NameMap on its own
\* The calls a client makes on a NameMap: nm is the map, trace the calls
\* with what each returned, had is whether the signal had an entry before.
NameMapSignals == {Signal(1, 0), Signal(1, 1), Signal(2, 0)}

ReaderIdle ==
  UNCHANGED <<pc, NDEBUG, has_set_name_v, has_set_output_name_v, _ntk,
              _names, _num_inputs, outputs, signals, latches, output_idx,
              latch_idx>>

CallInsert(s, name) ==
  /\ pc = "namemap"
  /\ nm' = insert(nm, s, name)
  /\ trace' = Append(trace, [op |-> "insert", s |-> s, name |-> name])
  /\ ReaderIdle

Lookup(op, s, r) ==
  /\ pc = "namemap"
  /\ nm' = r.map
  /\ trace' = Append(trace, [op |-> op, s |-> s,
                              had |-> s \in DOMAIN nm._names,
                              threw |-> r.threw, value |-> r.value])
  /\ ReaderIdle

CallIndex(s) == Lookup("operator[]", s, NameMapIndex(nm, s))
CallIndexConst(s) == Lookup("operator[] const", s, NameMapAt(nm, s))
CallGetName(s) == Lookup("get_name", s, get_name(nm, s))

CallHasName(s, name) ==
  /\ pc = "namemap"
  /\ trace' = Append(trace, [op |-> "has_name", s |-> s, name |-> name,
                              value |-> NameMap_has_name(nm, s, name)])
  /\ UNCHANGED nm
  /\ ReaderIdle

CallGetNameToSignalMapping ==
  /\ pc = "namemap"
  /\ trace' = Append(trace, [op |-> "get_name_to_signal_mapping",
                              value |-> get_name_to_signal_mapping(nm)])
  /\ UNCHANGED nm
  /\ ReaderIdle

InitNameMap ==
  /\ pc = "namemap"
  /\ NDEBUG = FALSE
  /\ has_set_name_v = TRUE
  /\ has_set_output_name_v = TRUE
  /\ _ntk = EmptyNtk
  /\ _names = TRUE
  /\ nm = EmptyNameMap
  /\ _num_inputs = 0
  /\ outputs = <<>>
  /\ signals = <<>>
  /\ latches = <<>>
  /\ output_idx = 0
  /\ latch_idx = 0
  /\ trace = <<>>

MoreCalls == Len(trace) < MaxCalls

NextNameMap ==
  \/ \E s \in NameMapSignals, name \in Names : MoreCalls /\ CallInsert(s, name)
  \/ \E s \in NameMapSignals : MoreCalls /\ CallIndex(s)
  \/ \E s \in NameMapSignals : MoreCalls /\ CallIndexConst(s)
  \/ \E s \in NameMapSignals : MoreCalls /\ CallGetName(s)
  \/ \E s \in NameMapSignals, name \in Names :
       MoreCalls /\ CallHasName(s, name)
  \/ MoreCalls /\ CallGetNameToSignalMapping

SpecNameMap == InitNameMap /\ [][NextNameMap]_vars

\* ---------------------------------------------------------------- history
\* What the claims say about a stream is read from trace, the events as
\* they were delivered, not from the reader's buffers.
Last == trace[Len(trace)]
OutputEvents == SelectSeq(trace, LAMBDA e : e.op = "on_output")
LatchEvents == SelectSeq(trace, LAMBDA e : e.op = "on_latch")
\* The handler of the i-th event returned (the process did not die in it).
Returned(i) == i < Len(trace) \/ pc # "abort"

\* The signal a literal stands for, when its node index is in the table.
InRange(lit) == lit \div 2 < Len(signals)
Expected(lit) ==
  LET s == signals[(lit \div 2) + 1]
  IN  Signal(s.index, (s.complement + (lit % 2)) % 2)

\* ------------------------------------------------------------------ claims

\* C1: for every on_and event, an index that differs from the table length
\* at that moment ends the decode with a fatal error and appends nothing; an
\* index equal to it appends exactly one entry, at position index.
C1_AndIndexChecked ==
  (pc \in {"events", "abort"} /\ Len(trace) > 0 /\ Last.op = "on_and") =>
    IF Last.index # Last.size
    THEN pc = "abort" /\ Len(signals) = Last.size
    ELSE (Last.left_lit \div 2 < Last.size /\ Last.right_lit \div 2 < Last.size)
           => (pc = "events" /\ Len(signals) = Last.index + 1)

\* C2: whenever a literal is resolved whose node index is not below the
\* table length (an operand of on_and, a pending output or a pending latch in
\* the destructor), the decode aborts instead of reading the table.
C2_OutOfRangeAborts ==
  /\ \A i \in 1..Len(trace) :
       (/\ trace[i].op = "on_and"
        /\ \/ trace[i].left_lit \div 2 >= trace[i].size
           \/ trace[i].right_lit \div 2 >= trace[i].size)
       => (i = Len(trace) /\ pc = "abort")
  /\ \A k \in 1..Len(outputs) :
       (pc \in {"dtor", "done"} /\ k <= output_idx) => InRange(outputs[k][1])
  /\ \A j \in 1..Len(latches) :
       (pc \in {"dtor", "done"} /\ j < latch_idx) => InRange(latches[j][1])

\* C3: after on_header(numInputs, numLatches) on an empty builder the table
\* holds 1 + numInputs + numLatches entries: the constant false, then the
\* inputs in creation order, then the register outputs in creation order;
\* the network has no output yet.
C3_HeaderLayout ==
  (pc = "events" /\ Len(trace) = 1) =>
    LET ni == trace[1].num_inputs
        nl == trace[1].num_latches
    IN  /\ trace[1].op = "on_header"
        /\ Len(signals) = 1 + ni + nl
        /\ signals[1] = Signal(0, 0)
        /\ Len(_ntk.nodes) = ni + nl
        /\ \A i \in 1..ni :
             signals[1 + i] = Signal(i, 0) /\ _ntk.nodes[i].kind = "pi"
        /\ \A j \in 1..nl :
             /\ signals[1 + ni + j] = Signal(ni + j, 0)
             /\ _ntk.nodes[ni + j].kind = "ro"
        /\ _ntk.outputs = <<>>
        /\ outputs = <<>> /\ latches = <<>>

C3_Witness ==
  /\ pc = "events" /\ Len(trace) = 1
  /\ trace[1].num_inputs = 1 /\ trace[1].num_latches = 1
  /\ Len(signals) = 3

\* C4: the destructor creates the primary outputs of all pending outputs, in
\* the order of their on_output events, before any register input, then the
\* register inputs in the order of the on_latch events: the k-th output is at
\* position k and the j-th latch at position numOutputs + j.
C4_OutputsThenLatches ==
  (pc \in {"dtor", "done"}) =>
    LET no == Len(OutputEvents)
        nl == Len(LatchEvents)
    IN  /\ Len(_ntk.outputs) = output_idx
        /\ Len(_ntk.outputs) <= no + nl
        /\ pc = "done" => Len(_ntk.outputs) = no + nl
        /\ \A p \in 1..Len(_ntk.outputs) :
             IF p <= no
             THEN /\ _ntk.outputs[p].kind = "po"
                  /\ InRange(OutputEvents[p].lit)
                       => _ntk.outputs[p].sig = Expected(OutputEvents[p].lit)
             ELSE /\ _ntk.outputs[p].kind = "ri"
                  /\ InRange(LatchEvents[p - no].next)
                       => _ntk.outputs[p].sig = Expected(LatchEvents[p - no].next)

C4_Witness ==
  /\ pc = "done"
  /\ Len(OutputEvents) = 2 /\ OutputEvents[1].lit # OutputEvents[2].lit
  /\ Len(LatchEvents) = 1
  /\ Len(_ntk.outputs) = 3
  /\ _ntk.outputs[3].kind = "ri"
  /\ \A e \in {OutputEvents[1], OutputEvents[2]} : InRange(e.lit)

\* C5: on_output and on_latch leave the network unchanged and only append
\* one entry to their pending buffer; so before the destructor starts the
\* network has no primary output and no register input.
C5_OutputsDeferred ==
  /\ [](pc \in {"header", "events", "abort"} => _ntk.outputs = <<>>)
  /\ [][(trace' # trace /\ trace'[Len(trace')].op \in {"on_output", "on_latch"}
         /\ pc' = "events")
        => /\ _ntk' = _ntk /\ signals' = signals /\ nm' = nm
           /\ IF trace'[Len(trace')].op = "on_output"
              THEN /\ outputs' = Append(outputs, <<trace'[Len(trace')].lit, "">>)
                   /\ latches' = latches
              ELSE /\ Len(latches') = Len(latches) + 1
                   /\ SubSeq(latches', 1, Len(latches)) = latches
                   /\ latches'[Len(latches')][1] = trace'[Len(trace')].next
                   /\ outputs' = outputs]_vars

C5_Witness ==
  /\ pc = "events"
  /\ Len(outputs) = 1 /\ Len(latches) = 1
  /\ Len(OutputEvents) = 1 /\ Len(LatchEvents) = 1
  /\ _ntk.outputs = <<>>

\* C6: a position for which an on_output_name event arrived, before or after
\* its on_output / on_latch event, carries after the destructor the name of
\* the (most recent) event and no default; the defaults "po<p>" and "li<n>"
\* go only to the created positions no event named.
NamedByEvent(p) ==
  \E i \in 1..Len(trace) : trace[i].op = "on_output_name" /\ trace[i].index = p
LastOutputName(p) ==
  LET i == CHOOSE i \in 1..Len(trace) :
             /\ trace[i].op = "on_output_name" /\ trace[i].index = p
             /\ \A k \in (i + 1)..Len(trace) :
                  ~(trace[k].op = "on_output_name" /\ trace[k].index = p)
  IN  trace[i].name

C6_NamedOutputsKeepName ==
  (pc = "done") =>
    LET no == Len(OutputEvents)
        nl == Len(LatchEvents)
    IN  \A p \in 0..(MaxIndex + no + nl) :
          IF NamedByEvent(p)
          THEN /\ p \in DOMAIN _ntk.output_names
               /\ _ntk.output_names[p] = LastOutputName(p)
          ELSE IF p < no
          THEN /\ p \in DOMAIN _ntk.output_names
               /\ _ntk.output_names[p] = "po" \o ToString(p)
          ELSE IF p < no + nl
          THEN /\ p \in DOMAIN _ntk.output_names
               /\ _ntk.output_names[p] = "li" \o ToString(p - no + 1)
          ELSE p \notin DOMAIN _ntk.output_names

\* A latch named before its on_latch event, beside an output left to its
\* default.
C6_Witness ==
  /\ pc = "done"
  /\ Len(trace) = 4
  /\ trace[2].op = "on_output_name" /\ trace[2].index = 1
  /\ trace[3].op = "on_output"
  /\ trace[4].op = "on_latch"
  /\ _ntk.output_names = (0 :> "po0") @@ (1 :> trace[2].name)

\* An output named after its on_output event.
C6_WitnessNamedAfter ==
  /\ pc = "done"
  /\ Len(trace) = 3
  /\ trace[2].op = "on_output"
  /\ trace[3].op = "on_output_name" /\ trace[3].index = 0
  /\ _ntk.output_names = (0 :> trace[3].name)

\* C7: header(2 inputs, 0 latches), and(3, 2, 4), output(0, 6) and the
\* destructor give a network of exactly 2 inputs, 1 AND gate over the two
\* inputs un-negated and 1 output, the un-negated gate, named "po0".  In
\* general every on_and creates one conjunction of the table entries at
\* left >> 1 and right >> 1, each negated exactly when its low bit is 1.
ScenarioAnd ==
  <<[op |-> "on_header", num_inputs |-> 2, num_latches |-> 0],
    [op |-> "on_and", index |-> 3, left_lit |-> 2, right_lit |-> 4, size |-> 3],
    [op |-> "on_output", index |-> 0, lit |-> 6, size |-> 0]>>

AndEventsReturned ==
  {i \in 1..Len(trace) : trace[i].op = "on_and" /\ Returned(i)}

C7_AndGates ==
  /\ (pc = "done" /\ trace = ScenarioAnd) =>
       /\ _ntk.nodes = <<[kind |-> "pi", fanin |-> <<>>],
                         [kind |-> "pi", fanin |-> <<>>],
                         [kind |-> "and", fanin |-> <<Signal(1, 0), Signal(2, 0)>>]>>
       /\ _ntk.outputs = <<[kind |-> "po", sig |-> Signal(3, 0), reset |-> 0]>>
       /\ _ntk.output_names = (0 :> "po0")
  /\ Cardinality({n \in 1..Len(_ntk.nodes) : _ntk.nodes[n].kind = "and"})
       = Cardinality(AndEventsReturned)
  /\ \A i \in AndEventsReturned :
       LET e == trace[i]
           s == signals[e.size + 1]
       IN  /\ Len(signals) > e.size
           /\ s.complement = 0
           /\ s.index \in 1..Len(_ntk.nodes)
           /\ _ntk.nodes[s.index].kind = "and"
           /\ e.left_lit \div 2 < e.size
                => _ntk.nodes[s.index].fanin[1] = Expected(e.left_lit)
           /\ e.right_lit \div 2 < e.size
                => _ntk.nodes[s.index].fanin[2] = Expected(e.right_lit)

C7_Witness ==
  /\ pc = "done"
  /\ trace = ScenarioAnd
  /\ Len(_ntk.nodes) = 3
  /\ Len(_ntk.outputs) = 1

\* C8: for every latch event (index, next, reset) whose position no event
\* named, the destructor creates one register input on the signal of next
\* (entry next >> 1, negated iff next & 1) with the reset value of the event,
\* and names position numOutputs + j "li<j+1>" (j the 0-based arrival order):
\* the single latch (0, 3, ONE) gives a register input on the negated entry 1
\* with reset ONE, named "li1".
ResetOfEvent(e) ==
  CASE e.reset = "ZERO" -> 0
    [] e.reset = "ONE" -> 1
    [] e.reset = "NONDETERMINISTIC" -> -1

C8_LatchRegisterInputs ==
  (pc = "done") =>
    LET no == Len(OutputEvents)
        nl == Len(LatchEvents)
    IN  /\ Cardinality({p \in 1..Len(_ntk.outputs) : _ntk.outputs[p].kind = "ri"}) = nl
        /\ \A j \in 1..nl :
             LET e == LatchEvents[j]
                 o == _ntk.outputs[no + j]
             IN  /\ o.kind = "ri"
                 /\ o.reset = ResetOfEvent(e)
                 /\ InRange(e.next) => o.sig = Expected(e.next)
                 /\ ~NamedByEvent(no + j - 1)
                      => /\ (no + j - 1) \in DOMAIN _ntk.output_names
                         /\ _ntk.output_names[no + j - 1] = "li" \o ToString(j)
        /\ (/\ LatchEvents = <<[op |-> "on_latch", index |-> 0, next |-> 3,
                                reset |-> "ONE"]>>
            /\ no = 0
            /\ InRange(3)
            /\ ~NamedByEvent(0))
           => /\ _ntk.outputs =
                   <<[kind |-> "ri", sig |-> Signal(signals[2].index, 1), reset |-> 1]>>
              /\ _ntk.output_names[0] = "li1"

C8_Witness ==
  /\ pc = "done"
  /\ Len(OutputEvents) = 1
  /\ Len(LatchEvents) = 2
  /\ LatchEvents[1].next = 3 /\ LatchEvents[1].reset = "ONE"
  /\ LatchEvents[2].next = 2 /\ LatchEvents[2].reset = "NONDETERMINISTIC"
  /\ _ntk.outputs[2] = [kind |-> "ri", sig |-> Signal(1, 1), reset |-> 1]
  /\ _ntk.outputs[3] = [kind |-> "ri", sig |-> Signal(1, 0), reset |-> -1]
  /\ _ntk.output_names[1] = "li1" /\ _ntk.output_names[2] = "li2"

\* C9: for every literal L whose node index is in the table, resolving L and
\* negating the result gives the signal that resolving L ^ 1 gives.
Xor1(lit) == IF lit % 2 = 0 THEN lit + 1 ELSE lit - 1

C9_PolarityInvolutive ==
  \A lit \in 0..(2 * Len(signals) - 1) :
    \A s \in ReadSignal(lit \div 2), t \in ReadSignal(Xor1(lit) \div 2) :
      create_not(LiteralSignal(s, lit)) = LiteralSignal(t, Xor1(lit))

\* The reader resolved an odd and an even literal over a table with a gate.
C9_Witness ==
  /\ pc = "events"
  /\ \E i \in AndEventsReturned :
       /\ trace[i].left_lit = 3 /\ trace[i].right_lit = 2
       /\ _ntk.nodes[signals[trace[i].size + 1].index].fanin
            = <<Signal(1, 1), Signal(1, 0)>>

\* C10: the names a decode assigns by default depend on the position alone,
\* so two decodes of one stream agree on them: an input no event named is
\* "pi<i>" (0-based), an output "po<k>" (0-based position), a latch "li<j>"
\* (1-based latch order).
InputNamedByEvent(i) ==
  \E k \in 1..Len(trace) : trace[k].op = "on_input_name" /\ trace[k].index = i

C10_DefaultNames ==
  /\ (Len(trace) > 0) =>
       \A i \in 0..(trace[1].num_inputs - 1) :
         ~InputNamedByEvent(i) =>
           /\ signals[i + 2] \in DOMAIN _ntk.names
           /\ _ntk.names[signals[i + 2]] = "pi" \o ToString(i)
  /\ (pc = "done") =>
       /\ \A k \in 0..(Len(OutputEvents) - 1) :
            ~NamedByEvent(k) =>
              /\ k \in DOMAIN _ntk.output_names
              /\ _ntk.output_names[k] = "po" \o ToString(k)
       /\ \A j \in 1..Len(LatchEvents) :
            ~NamedByEvent(Len(OutputEvents) + j - 1) =>
              /\ (Len(OutputEvents) + j - 1) \in DOMAIN _ntk.output_names
              /\ _ntk.output_names[Len(OutputEvents) + j - 1] = "li" \o ToString(j)

C10_Witness ==
  /\ pc = "done"
  /\ Len(OutputEvents) = 2 /\ Len(LatchEvents) = 1
  /\ _ntk.names = (Signal(1, 0) :> "pi0") @@ (Signal(2, 0) :> "pi1")
  /\ _ntk.output_names = (0 :> "po0") @@ (1 :> "po1") @@ (2 :> "li1")

\* ------------------------------------------------------------ NameMap
\* The names the first n calls inserted for signal s, in call order.
InsertedNames(n, s) ==
  LET ins == SelectSeq(SubSeq(trace, 1, n),
                       LAMBDA e : e.op = "insert" /\ e.s = s)
  IN  [i \in 1..Len(ins) |-> ins[i].name]

\* The inserts under one name, in call order.
InsertsUnder(name) ==
  SelectSeq(trace, LAMBDA e : e.op = "insert" /\ e.name = name)

LookupOps == {"operator[]", "operator[] const", "get_name"}

\* C11: after any inserts the exported reverse mapping sends every
\* inserted name to the signal of the most recent insert under that name.
\* The code keeps the first one: unordered_map::insert does not overwrite.
C11_LastWriteWins ==
  pc = "namemap" =>
    \A name \in Names :
      LET ins == InsertsUnder(name)
          rev == get_name_to_signal_mapping(nm)
      IN  Len(ins) > 0 =>
            /\ name \in DOMAIN rev
            /\ rev[name] = ins[Len(ins)].s

\* C12: the forward list of a signal is the names inserted for it, in
\* insertion order and with duplicates; has_name(s, n) holds exactly when
\* insert(s, n) was called before; every get_name and has_name call that
\* returned gave the answer for the inserts made before it.
C12_ForwardMap ==
  pc = "namemap" =>
    /\ \A s \in NameMapSignals :
         LET ins == InsertedNames(Len(trace), s)
         IN  /\ s \in DOMAIN nm._names => get_name(nm, s).value = ins
             /\ s \notin DOMAIN nm._names => ins = <<>>
             /\ \A name \in Names :
                  NameMap_has_name(nm, s, name)
                    <=> \E i \in 1..Len(ins) : ins[i] = name
    /\ \A i \in 1..Len(trace) :
         LET e == trace[i]
             ins == InsertedNames(i - 1, e.s)
         IN  /\ e.op = "get_name" /\ ~e.threw => e.value = ins
             /\ e.op = "has_name" =>
                  (e.value <=> \E k \in 1..Len(ins) : ins[k] = e.name)

\* Three inserts for one signal, a name twice, then the list is read.
C12_Witness ==
  /\ pc = "namemap"
  /\ Len(trace) = 3
  /\ nm._names[Signal(1, 0)] = <<"x", "y", "x">>

\* An insert of the same name for another signal in between.
C12_WitnessOtherSignal ==
  /\ pc = "namemap"
  /\ Len(trace) = 3
  /\ trace[2] = [op |-> "insert", s |-> Signal(2, 0), name |-> "x"]
  /\ nm._names[Signal(1, 0)] = <<"x", "y">>

\* C13: every lookup (get_name, both operator[]) of a signal without an
\* entry throws and creates no entry.  The non-const operator[] returns
\* an empty list and leaves an empty entry behind.
C13_LookupNotFound ==
  pc = "namemap" =>
    /\ \A i \in 1..Len(trace) :
         trace[i].op \in LookupOps /\ ~trace[i].had => trace[i].threw
    /\ Len(trace) > 0 /\ Last.op \in LookupOps /\ ~Last.had =>
         Last.s \notin DOMAIN nm._names

\* ------------------------------------------------------- finalization
Finalizing == pc \in {"dtor", "done", "abort_dtor"}
CountKind(kind) ==
  Cardinality({i \in 1..Len(_ntk.outputs) : _ntk.outputs[i].kind = kind})

\* C14: finalization starts at most once, from a reader that is not being
\* finalized; once it has started no handler runs (the stream and the
\* pending buffers stay as they are) and it never starts again; every
\* pending output becomes one primary output and every pending latch one
\* register input, never two.
C14_FinalizeOnce ==
  /\ [][Finalizing =>
          /\ Finalizing'
          /\ pc' # pc => pc = "dtor" /\ pc' \in {"done", "abort_dtor"}
          /\ trace' = trace /\ outputs' = outputs /\ latches' = latches
          /\ signals' = signals]_vars
  /\ [](Finalizing =>
          /\ CountKind("po") <= Len(outputs)
          /\ CountKind("ri") <= Len(latches)
          /\ pc = "done" => /\ CountKind("po") = Len(outputs)
                            /\ CountKind("ri") = Len(latches))
  /\ [](~Finalizing => _ntk.outputs = <<>>)

\* A stream with an output and a latch, finalized to the end.
C14_Witness ==
  /\ pc = "done"
  /\ Len(outputs) = 1
  /\ Len(latches) = 1
  /\ Len(_ntk.outputs) = 2

StreamFailed == \E i \in 1..Len(trace) : trace[i].op = "parse_error"

\* C15: when the decode aborts or the stream ends early nothing is
\* finalized: no primary output or register input is created and no name
\* reaches the NameMap.  The destructor finalizes whatever is pending.
C15_NoFinalizeAfterFailure ==
  StreamFailed \/ pc = "abort" =>
    /\ _ntk.outputs = <<>>
    /\ nm = EmptyNameMap

\* C16: a network type without an optional capability (set_name,
\* set_output_name, create_ro/create_ri) gets a reader in which that
\* feature does nothing and nothing fails.  Without create_ro or
\* create_ri there is no reader at all.
C16_AbsentCapabilityIsNoOp ==
  /\ pc # "ill_formed"
  /\ ~has_set_name_v => _ntk.names = EmptyMap
  /\ ~has_set_output_name_v => _ntk.output_names = EmptyMap

\* --------------------------------------------------------- name events
\* The table position a name event addresses, from the header event.
NamePosition(e) ==
  IF e.op = "on_input_name" THEN 1 + e.index
  ELSE 1 + trace[1].num_inputs + e.index

NodeKind(sig) == _ntk.nodes[sig.index].kind

\* C17: a returned on_input_name(i, name) gives the name to table entry
\* 1 + i, a returned on_latch_name(i, name) to entry 1 + numInputs + i,
\* when the table has that entry; no other name, no node, no output, not
\* the table and no pending buffer changes.  Entry 1 + i with
\* i < numInputs is a primary input and carried "pi<i>" until its first
\* name event; entry 1 + numInputs + i with i < numLatches is a register
\* output.
C17_NameEvents ==
  [][(/\ Len(trace') = Len(trace) + 1
      /\ pc' = "events"
      /\ trace'[Len(trace')].op \in {"on_input_name", "on_latch_name"}
      /\ NamePosition(trace'[Len(trace')]) < Len(signals))
     =>
     LET e == trace'[Len(trace')]
         sig == signals[NamePosition(e) + 1]
     IN  /\ _ntk'.names = MapPut(_ntk.names, sig, e.name)
         /\ \A s \in DOMAIN _ntk.names \ {sig} : _ntk'.names[s] = _ntk.names[s]
         /\ _ntk'.nodes = _ntk.nodes
         /\ _ntk'.outputs = _ntk.outputs
         /\ _ntk'.output_names = _ntk.output_names
         /\ signals' = signals /\ outputs' = outputs /\ latches' = latches
         /\ e.op = "on_input_name" /\ e.index < trace[1].num_inputs =>
              /\ NodeKind(sig) = "pi"
              /\ (\A k \in 1..Len(trace) :
                    ~(trace[k].op = "on_input_name" /\ trace[k].index = e.index))
                  => _ntk.names[sig] = DefaultInputName(e.index)
         /\ e.op = "on_latch_name" /\ e.index < trace[1].num_latches =>
              NodeKind(sig) = "ro"]_vars

\* One input and one latch: the latch name lands on entry 2 (the third).
C17_Witness ==
  /\ pc = "events"
  /\ Len(trace) = 2
  /\ trace[1].num_inputs = 1 /\ trace[1].num_latches = 1
  /\ Last = [op |-> "on_latch_name", index |-> 0, name |-> "x"]
  /\ _ntk.names[signals[3]] = "x"
  /\ _ntk.names[signals[2]] = "pi0"

\* The input's default name is replaced, then replaced again.
C17_WitnessInput ==
  /\ pc = "events"
  /\ Len(trace) = 3
  /\ trace[1].num_inputs = 1
  /\ trace[2] = [op |-> "on_input_name", index |-> 0, name |-> "x"]
  /\ Last = [op |-> "on_input_name", index |-> 0, name |-> "y"]
  /\ _ntk.names[signals[2]] = "y"

\* C18: the name field of pending output k is empty until an
\* on_output_name event for position k arrives and is that event's name
\* from then on, so no empty name reaches an attached NameMap at
\* finalization.  on_output_name names the network's output position and
\* never touches the pending entry.
NamedWhilePending(k) ==
  \E i \in 1..Len(trace) : \E j \in (i + 1)..Len(trace) :
    /\ trace[i].op = "on_output" /\ trace[i].size = k - 1
    /\ trace[j].op = "on_output_name" /\ trace[j].index = k - 1

C18_PendingOutputCarriesName ==
  /\ pc \in {"events", "dtor", "done"} =>
       \A k \in 1..Len(outputs) :
         outputs[k][2] = IF NamedWhilePending(k) THEN LastOutputName(k - 1)
                         ELSE ""
  /\ pc = "done" /\ _names =>
       \A s \in DOMAIN nm._names :
         \A i \in 1..Len(nm._names[s]) : nm._names[s][i] # ""

\* -------------------------------------------------------- signal table
\* C19: once the header has been handled the table holds the constant,
\* the inputs, the latches and one entry per on_and event that returned;
\* a step only ever appends to it (entries already there keep their place
\* and value), and only on_header and on_and steps change it: name
\* events, on_latch, on_output and the destructor leave it as it is.
C19_SignalTableAppendOnly ==
  /\ [](Len(trace) > 0 =>
          Len(signals) = 1 + trace[1].num_inputs + trace[1].num_latches
                           + Cardinality(AndEventsReturned))
  /\ [](Len(trace) = 0 => signals = <<>>)
  /\ [][/\ Len(signals') >= Len(signals)
        /\ SubSeq(signals', 1, Len(signals)) = signals
        /\ signals' # signals =>
             /\ Len(trace') = Len(trace) + 1
             /\ trace'[Len(trace')].op \in {"on_header", "on_and"}]_vars

\* Two gates appended after a header with an input and a latch.
C19_Witness ==
  /\ pc = "events"
  /\ Len(trace) = 3
  /\ trace[1].num_inputs = 1 /\ trace[1].num_latches = 1
  /\ trace[2].op = "on_and" /\ trace[3].op = "on_and"
  /\ Len(signals) = 5

\* The table after name, latch and output events and the destructor.
C19_WitnessUnchanged ==
  /\ pc = "done"
  /\ Len(trace) = 3
  /\ trace[2].op = "on_latch" /\ trace[3].op = "on_output"
  /\ Len(signals) = 3

\* ------------------------------------------------------ output indices
\* C20: an on_output event returns only when its index is the number of
\* outputs pending before it; so when the destructor has returned there
\* is one primary output per on_output event and one register input per
\* on_latch event, and primary output k comes from the on_output event
\* whose index is k.  The index is compared only inside an assert.
C20_OutputIndexChecked ==
  /\ \A i \in 1..Len(trace) :
       trace[i].op = "on_output" /\ Returned(i) =>
         trace[i].index = trace[i].size
  /\ pc = "done" =>
       /\ CountKind("po") = Len(OutputEvents)
       /\ CountKind("ri") = Len(LatchEvents)
       /\ \A k \in 1..Len(OutputEvents) :
            /\ OutputEvents[k].index = k - 1
            /\ _ntk.outputs[k].kind = "po"
            /\ InRange(OutputEvents[k].lit) =>
                 _ntk.outputs[k].sig = Expected(OutputEvents[k].lit)

====
